---- MODULE Spec2Model ----
(***************************************************************************)
(* Model of the student-roster client (gorgojo32/Masivas_Fronent):         *)
(*   - validarArchivoExcel, the pure file validator;                       *)
(*   - ModalImportarExcel, the import modal with its progress-tracked      *)
(*     upload;                                                             *)
(*   - ImportarEstudiantes, the page that owns the record list, the        *)
(*     loading flag and the single-slot notification;                      *)
(*   - DinamicTable and ModalEdicionEstudiante, the table with its edit    *)
(*     form.                                                               *)
(* A handler runs to completion between two awaits, so each action is one  *)
(* handler or one continuation of an async handler.  An optional value     *)
(* (null | v) is the sequence <<>> or <<v>>.  A string the code inspects   *)
(* character by character (a file name, a form field) is a sequence of     *)
(* one-character strings.                                                  *)
(***************************************************************************)
EXTENDS Integers, Sequences, FiniteSets, TLC

VARIABLES
    \* validarArchivoExcel applied to a candidate file
    archivo, validacion,
    \* ImportarEstudiantes (the page)
    estudiantes, loading, alert, isImportModalOpen,
    \* ModalImportarExcel
    uploadProgress, selectedFile, uploading, error, processingResults,
    \* DinamicTable and ModalEdicionEstudiante
    modalOpen, estudianteSeleccionado, formData, errors,
    \* the environment: requests in flight, uploads in flight, pending
    \* timeouts, the service's list
    peticiones, xhrs, timers, servidor,
    \* history: number of requests issued, operations the user started,
    \* uploads started, edits of the open form, the last handler that ran, per-upload bookkeeping
    nPeticiones, nOperaciones, nSubidas, nEdiciones, ultimo, subidas

vars == <<archivo, validacion, estudiantes, loading, alert, isImportModalOpen,
          uploadProgress, selectedFile, uploading, error, processingResults,
          modalOpen, estudianteSeleccionado, formData, errors,
          peticiones, xhrs, timers, servidor,
          nPeticiones, nOperaciones, nSubidas, nEdiciones, ultimo, subidas>>

varsValidador == <<archivo, validacion>>
varsPagina == <<estudiantes, loading, alert, isImportModalOpen>>
varsModal == <<uploadProgress, selectedFile, uploading, error, processingResults>>
varsTabla == <<modalOpen, estudianteSeleccionado, formData, errors>>
varsRed == <<peticiones, servidor, nPeticiones, nOperaciones>>
varsSubida == <<xhrs, timers, nSubidas, subidas>>

Null == <<>>
Some(v) == <<v>>
Val(o) == o[1]

(***************************************************************************)
(* Strings as character sequences                                          *)
(***************************************************************************)
\* String.prototype.toLowerCase on one character of the alphabet in use
LowerChar(c) ==
    CASE c = "A" -> "a"
      [] c = "L" -> "l"
      [] c = "S" -> "s"
      [] c = "T" -> "t"
      [] c = "X" -> "x"
      [] OTHER -> c

toLowerCase(s) == [i \in 1..Len(s) |-> LowerChar(s[i])]

endsWith(s, suf) ==
    /\ Len(s) >= Len(suf)
    /\ SubSeq(s, Len(s) - Len(suf) + 1, Len(s)) = suf

ExtXlsx == <<".", "x", "l", "s", "x">>
ExtXls == <<".", "x", "l", "s">>

(***************************************************************************)
(* Candidate files                                                         *)
(***************************************************************************)
\* maxSize one byte short
maxSize_menos == 5 * 1024 * 1024 - 1

maxSize == 5 * 1024 * 1024

Nombres ==
    { <<"a", ".", "x", "l", "s", "x">>,
      <<"a", ".", "x", "l", "s">>,
      <<"A", ".", "X", "L", "S", "X">>,
      <<"a", ".", "X", "l", "s">>,
      <<"a", ".", "t", "x", "t">>,
      <<"a", ".", "x", "l", "s", "x", ".", "t", "x", "t">>,
      <<"x", "l", "s", "x">>,
      <<"a">> }

tiposPermitidos ==
    { "application/vnd.ms-excel",
      "application/vnd.openxmlformats-officedocument.spreadsheetml.sheet",
      "application/octet-stream",
      "application/zip",
      "" }

Tipos == tiposPermitidos \cup {"text/plain", "image/png"}

Tamanos == {0, 1024, maxSize - 1, maxSize, maxSize + 1, 6 * 1024 * 1024}

Archivos == [name : Nombres, type : Tipos, size : Tamanos]

\* (size / (1024 * 1024)).toFixed(2), in hundredths of a MB, rounded to nearest
toFixed2MB(size) == (2 * 100 * size + 1024 * 1024) \div (2 * 1024 * 1024)

(***************************************************************************)
(* validarArchivoExcel                                                     *)
(***************************************************************************)
ErrorTipo == [texto |-> "El archivo seleccionado no es un archivo Excel valido (.xlsx o .xls)",
              mb100 |-> 0]
ErrorTamano(size) ==
    [texto |-> "El archivo excede el tamano maximo permitido (5 MB). Tamano actual: ",
     mb100 |-> toFixed2MB(size)]

validarArchivoExcel(file) ==
    LET e1 == IF /\ file.type \notin tiposPermitidos
                 /\ ~endsWith(toLowerCase(file.name), ExtXlsx)
                 /\ ~endsWith(toLowerCase(file.name), ExtXls)
              THEN <<ErrorTipo>> ELSE <<>>
        e2 == IF file.size > maxSize THEN <<ErrorTamano(file.size)>> ELSE <<>>
        errores == e1 \o e2
    IN  [valido |-> Len(errores) = 0, errores |-> errores]

(***************************************************************************)
(* The service and the requests in flight                                  *)
(***************************************************************************)
\* The average score: null, the empty string, a number (in tenths) or NaN
PNull == [t |-> "null", v |-> 0]
PVacio == [t |-> "vacio", v |-> 0]
PNaN == [t |-> "nan", v |-> 0]
PNum(x) == [t |-> "num", v |-> x]

Ana == <<"A", "n", "a">>
Lee == <<"L", "e", "e">>
EmailBueno == <<"a", "@", "b", ".", "c">>
Tel == <<"5">>
Medicina == <<"M">>

E1 == [id_estudiante |-> 1, nombre |-> Ana, apellido |-> Lee, email |-> EmailBueno,
       telefono |-> Tel, carrera |-> Medicina, semestre |-> 3, promedio |-> PNum(85)]
E2 == [id_estudiante |-> 2, nombre |-> Ana, apellido |-> Lee, email |-> EmailBueno,
       telefono |-> Tel, carrera |-> Medicina, semestre |-> 12, promedio |-> PNull]
\* the k-th record a bulk import creates
EImportado(k) == [E1 EXCEPT !.id_estudiante = 2 + k, !.semestre = 1]

ServidorInicial == <<E1, E2>>

\* A response: a 2xx JSON body, a non-2xx status, or no response at all
RespJson(success, msg, data) ==
    [tipo |-> "json", status |-> 200, success |-> success, msg |-> msg, data |-> data]
RespHttp(status) ==
    [tipo |-> "http", status |-> status, success |-> FALSE, msg |-> Null, data |-> <<>>]
RespRed == [tipo |-> "red", status |-> 0, success |-> FALSE, msg |-> Null, data |-> <<>>]

MsgServidor == "sin permiso"
MsgFetchFallido == "Failed to fetch"

Peticion(n, metodo, id, cuerpo) ==
    [n |-> n, metodo |-> metodo, id |-> id, cuerpo |-> cuerpo, resp |-> Null]

\* data.msg || 'Error desconocido'
MsgO(msg, defecto) == IF msg = Null \/ Val(msg) = "" THEN defecto ELSE Val(msg)

\* the message of the Error a fetch-based handler catches
MensajeError(r) ==
    IF r.tipo = "http" THEN "Error HTTP: " \o ToString(r.status) ELSE MsgFetchFallido

(***************************************************************************)
(* ImportarEstudiantes: the notification slot                              *)
(***************************************************************************)
AlertInicial == [message |-> "", severity |-> "info", open |-> FALSE]

\* showAlert keeping a message that is still visible
showAlert_siCerrada(message, severity) ==
    IF alert.open THEN alert
    ELSE [message |-> message, severity |-> severity, open |-> TRUE]

showAlert(message, severity) == [message |-> message, severity |-> severity, open |-> TRUE]

handleCloseAlert == 
    /\ alert.open
    /\ alert' = [alert EXCEPT !.open = FALSE]
    /\ ultimo' = [op |-> "handleCloseAlert", res |-> "", n |-> 0, fin |-> <<>>]
    /\ UNCHANGED <<estudiantes, loading, isImportModalOpen>>
    /\ UNCHANGED <<varsValidador, varsModal, varsTabla, varsRed, varsSubida, nEdiciones>>

(***************************************************************************)
(* Bounds                                                                  *)
(***************************************************************************)
\* list refreshes issued on account of imports over a run
MaxRefrescos == 2
\* deletes and exports the user starts over a run
MaxOperaciones == 2
\* uploads started over a run
MaxSubidas == 1
\* edits saved over a run
MaxGuardados == 1
\* uploads, deletes, exports, downloads, saves and field edits the user
\* starts over a run of the whole page
MaxIniciadas == 1
\* changes made to the fields of the edit form over a run
MaxEdiciones == 1
\* progress granularity: event.total, in chunks
Trozos == 2

\* the most records an import answer counts
MaxRegistros == 40

\* whether the import modal may cause one more refresh: those already issued,
\* plus one for each pending timeout and each upload in flight
PuedeRefrescar == nPeticiones + Cardinality(timers) + Cardinality(xhrs) < MaxRefrescos

\* the last handler that ran, its outcome and the request or upload it was
\* about; fin is the terminal event of the upload it settled, when it did
Ultimo(op, res, n) == [op |-> op, res |-> res, n |-> n, fin |-> <<>>]

(***************************************************************************)
(* ImportarEstudiantes: fetchEstudiantes                                   *)
(***************************************************************************)
\* fetchEstudiantes up to its await: the GET request it adds
PeticionGet == Peticion(nPeticiones + 1, "GET", 0, Null)

SinId(lista, id) == SelectSeq(lista, LAMBDA e : e.id_estudiante # id)

ConCuerpo(lista, id, cuerpo) ==
    [i \in 1..Len(lista) |->
        IF lista[i].id_estudiante = id THEN cuerpo ELSE lista[i]]

\* the service's list once it has carried out request p
ServidorTras(p) ==
    CASE p.metodo = "DELETE" -> SinId(servidor, p.id)
      [] p.metodo = "PUT" -> ConCuerpo(servidor, p.id, Val(p.cuerpo))
      [] OTHER -> servidor

\* The service handles request p: it carries it out (a GET reads the list
\* as it is now) or refuses it.  What it has decided travels back.
Servir(p, ok) ==
    /\ p.resp = Null
    /\ peticiones' = (peticiones \ {p}) \cup
          {[p EXCEPT !.resp = Some([ok |-> ok,
                                    data |-> IF ok /\ p.metodo = "GET"
                                             THEN servidor ELSE <<>>])]}
    /\ servidor' = IF ok THEN ServidorTras(p) ELSE servidor
    /\ ultimo' = Ultimo("servir", p.metodo, 0)
    /\ UNCHANGED <<varsValidador, varsPagina, varsModal, varsTabla, varsSubida,
                   nPeticiones, nOperaciones, nEdiciones>>

\* the responses the client may see for a handled request
Respuestas(p) ==
    IF Val(p.resp).ok
    THEN { RespJson(TRUE, Null, Val(p.resp).data) }
    ELSE { RespJson(FALSE, Some(MsgServidor), <<>>), RespJson(FALSE, Null, <<>>),
           RespHttp(500), RespRed }

Exito(r) == r.tipo = "json" /\ r.success

\* estudiantesTras with the fetched rows added to those already shown
estudiantesTras_parcial(r) == IF Exito(r) THEN estudiantes \o r.data ELSE estudiantes

\* estudiantesTras with a failed fetch that empties the list
estudiantesTras_vacia(r) == IF Exito(r) THEN r.data ELSE <<>>

\* the list after fetchEstudiantes has seen answer r
estudiantesTras(r) == IF Exito(r) THEN r.data ELSE estudiantes

\* the notification after fetchEstudiantes has seen answer r
alertTrasFetch(r) ==
    IF r.tipo = "json"
    THEN IF r.success THEN alert
         ELSE showAlert("Error al cargar estudiantes: "
                        \o MsgO(r.msg, "Error desconocido"), "error")
    ELSE showAlert("Error al cargar estudiantes: " \o MensajeError(r), "error")

\* fetchEstudiantes from its await to its end
fetchEstudiantesRespuesta(p) ==
    /\ p.metodo = "GET" /\ p.resp # Null
    /\ \E r \in Respuestas(p) :
        /\ estudiantes' = estudiantesTras(r)
        /\ alert' = alertTrasFetch(r)
        /\ ultimo' = Ultimo("fetchEstudiantes", IF Exito(r) THEN "ok" ELSE r.tipo, p.n)
    /\ loading' = FALSE
    /\ peticiones' = peticiones \ {p}
    /\ UNCHANGED <<isImportModalOpen, servidor, nPeticiones, nOperaciones, nEdiciones>>
    /\ UNCHANGED <<varsValidador, varsModal, varsTabla, varsSubida>>

(***************************************************************************)
(* ModalImportarExcel                                                      *)
(***************************************************************************)
ArchivosModal ==
    { [name |-> <<"a", ".", "x", "l", "s", "x">>, type |-> "", size |-> 1024],
      [name |-> <<"a", ".", "x", "l", "s">>, type |-> "application/vnd.ms-excel",
       size |-> maxSize],
      [name |-> <<"a", ".", "x", "l", "s", "x">>, type |-> "application/zip",
       size |-> 6 * 1024 * 1024],
      [name |-> <<"a", ".", "t", "x", "t">>, type |-> "", size |-> 1024] }

\* the bodies a 2xx answer to the import may carry; only success is required,
\* each other property is there (Some) or not (Null)
Cuerpo(success, message, msg, insertados, totalProcesados, errores) ==
    [success |-> success, message |-> message, msg |-> msg, insertados |-> insertados,
     totalProcesados |-> totalProcesados, errores |-> errores]

Cuerpos ==
    { Cuerpo(TRUE, Some("Importacion completada"), Null, Some(8), Some(10),
             Some(<<[estudiante |-> "Eva", error |-> "email duplicado"],
                    [estudiante |-> "Luz", error |-> "semestre invalido"]>>)),
      Cuerpo(FALSE, Null, Some(MsgServidor), Null, Null, Null),
      Cuerpo(FALSE, Some("archivo vacio"), Null, Null, Null, Null) }

\* how an upload ends: onload with a status and a body that parses or not,
\* or onerror.  (ontimeout never fires: the code sets no xhr.timeout.)
FinCarga(status, parsea, cuerpo) ==
    [evento |-> "load", status |-> status, parsea |-> parsea, cuerpo |-> cuerpo]
FinError == [evento |-> "error", status |-> 0, parsea |-> FALSE, cuerpo |-> Null]
FinTimeout == [evento |-> "timeout", status |-> 0, parsea |-> FALSE, cuerpo |-> Null]

Finales ==
    { FinCarga(200, TRUE, Some(c)) : c \in Cuerpos }
    \cup { FinCarga(200, FALSE, Null), FinCarga(500, FALSE, Null),
           FinCarga(404, FALSE, Null), FinError }

\* the bodies the results view is checked on: every count of records up to
\* MaxRegistros, and every way of leaving the optional properties out
Fallos ==
    <<[estudiante |-> "Eva", error |-> "email duplicado"],
      [estudiante |-> "Luz", error |-> "semestre invalido"]>>

CuerposPosibles ==
    { Cuerpo(TRUE, Some("Importacion completada"), Null, Some(i), Some(t), Null) :
          i \in 0..MaxRegistros, t \in 0..MaxRegistros }
    \cup { Cuerpo(success, message, msg, nt[1], nt[2], errores) :
              success \in BOOLEAN,
              message \in {Null, Some("Importacion completada")},
              msg \in {Null, Some(MsgServidor)},
              nt \in {<<Null, Null>>, <<Some(0), Some(0)>>, <<Some(1), Some(2)>>},
              errores \in {Null} \cup {Some(SubSeq(Fallos, 1, k)) : k \in 0..Len(Fallos)} }

\* every terminal event the three handlers of the request are registered for
FinalesPosibles ==
    { FinCarga(200, TRUE, Some(c)) : c \in CuerposPosibles }
    \cup { FinCarga(201, TRUE, Some(c)) : c \in Cuerpos }
    \cup { FinCarga(status, FALSE, Null) : status \in {200, 400, 404, 413, 500, 503} }
    \cup { FinError, FinTimeout }

\* onload with one message for 400 and 413
onload_mismaRazon(status, parsea, cuerpo) ==
    IF status >= 200 /\ status < 300
    THEN IF parsea THEN [resuelta |-> TRUE, data |-> cuerpo, message |-> ""]
         ELSE [resuelta |-> FALSE, data |-> <<>>,
               message |-> "Error al analizar la respuesta del servidor"]
    ELSE [resuelta |-> FALSE, data |-> <<>>,
          message |-> CASE status = 400 \/ status = 413 -> "Archivo con formato incorrecto"
                        [] status = 500 -> "Error en el servidor"
                        [] OTHER -> "Error HTTP: " \o ToString(status)]

\* the settlement of uploadPromise: resolve(data) or reject(new Error(message))
Resuelve(data) == [resuelta |-> TRUE, data |-> Some(data), message |-> ""]
Rechaza(message) == [resuelta |-> FALSE, data |-> Null, message |-> message]

onload(status, parsea, cuerpo) ==
    IF status >= 200 /\ status < 300
    THEN IF parsea THEN Resuelve(Val(cuerpo))
         ELSE Rechaza("Error al analizar la respuesta del servidor")
    ELSE CASE status = 400 -> Rechaza("Archivo con formato incorrecto")
           [] status = 413 -> Rechaza("El archivo es demasiado grande")
           [] status = 500 -> Rechaza("Error en el servidor")
           [] OTHER -> Rechaza("Error HTTP: " \o ToString(status))

onerror == Rechaza("Error de red al intentar conectar con el servidor")

ontimeout == Rechaza("Tiempo de espera agotado. Compruebe su conexion")

uploadPromise(fin) ==
    CASE fin.evento = "load" -> onload(fin.status, fin.parsea, fin.cuerpo)
      [] fin.evento = "error" -> onerror
      [] OTHER -> ontimeout

\* errorSeleccion without its size rule
errorSeleccion_sinTamano(file) ==
    IF ~endsWith(file.name, ExtXlsx) /\ ~endsWith(file.name, ExtXls)
    THEN Some("Solo se permiten archivos Excel (.xlsx, .xls)")
    ELSE Null

\* the error handleFileChange reports for a file, Null when it accepts it
errorSeleccion(file) ==
    IF ~endsWith(file.name, ExtXlsx) /\ ~endsWith(file.name, ExtXls)
    THEN Some("Solo se permiten archivos Excel (.xlsx, .xls)")
    ELSE IF file.size > 5 * 1024 * 1024
         THEN Some("El archivo es demasiado grande. El tamano maximo permitido es 5MB")
         ELSE Null

SubidaNueva == [terminales |-> 0, resuelta |-> FALSE, exito |-> FALSE,
                refrescos |-> 0, expirado |-> FALSE, visto |-> FALSE]

\* handleImportComplete, called for upload n: one more refresh on its account
ConRefresco(n) ==
    [subidas EXCEPT !.lista[n].refrescos = @ + 1]

\* useEffect([open]) once open has become true
handleOpenImportModal ==
    /\ ~isImportModalOpen /\ ~modalOpen
    /\ isImportModalOpen' = TRUE
    /\ selectedFile' = Null
    /\ error' = Null
    /\ uploadProgress' = 0
    /\ processingResults' = Null
    /\ subidas' = [subidas EXCEPT !.mostrada = 0]
    /\ ultimo' = Ultimo("handleOpenImportModal", "", 0)
    /\ UNCHANGED <<uploading, estudiantes, loading, alert, xhrs, timers, nSubidas>>
    /\ UNCHANGED <<varsValidador, varsTabla, varsRed, nEdiciones>>

ExitoMostrado == processingResults # Null /\ Val(processingResults).success

\* the X of the title (always enabled) and the footer's Cancelar
handleCloseImportModal ==
    /\ isImportModalOpen
    /\ \E control \in {"X", "Cancelar"} :
        /\ control = "Cancelar" => (~ExitoMostrado /\ ~uploading)
        /\ ultimo' = Ultimo("handleCloseImportModal", control, 0)
    /\ isImportModalOpen' = FALSE
    /\ UNCHANGED <<estudiantes, loading, alert>>
    /\ UNCHANGED <<varsValidador, varsModal, varsTabla, varsRed, varsSubida, nEdiciones>>

\* handleImportComplete from the Completar button
Completar ==
    /\ isImportModalOpen /\ ExitoMostrado
    /\ PuedeRefrescar
    /\ loading' = TRUE
    /\ peticiones' = peticiones \cup {PeticionGet}
    /\ nPeticiones' = nPeticiones + 1
    /\ subidas' = ConRefresco(subidas.mostrada)
    /\ ultimo' = Ultimo("handleImportComplete", "Completar", subidas.mostrada)
    /\ UNCHANGED <<estudiantes, alert, isImportModalOpen, servidor, xhrs, timers, nSubidas,
                   nOperaciones>>
    /\ UNCHANGED <<varsValidador, varsModal, varsTabla, nEdiciones>>

\* the Dialog's onClose (backdrop click, Escape):
\* processingResults?.success ? onImportComplete : onClose
DialogOnClose ==
    /\ isImportModalOpen
    /\ IF ExitoMostrado
       THEN /\ PuedeRefrescar
            /\ loading' = TRUE
            /\ peticiones' = peticiones \cup {PeticionGet}
            /\ nPeticiones' = nPeticiones + 1
            /\ subidas' = ConRefresco(subidas.mostrada)
            /\ ultimo' = Ultimo("handleImportComplete", "Dialog", subidas.mostrada)
            /\ UNCHANGED isImportModalOpen
       ELSE /\ isImportModalOpen' = FALSE
            /\ ultimo' = Ultimo("handleCloseImportModal", "Dialog", 0)
            /\ UNCHANGED <<loading, peticiones, nPeticiones, subidas>>
    /\ UNCHANGED <<estudiantes, alert, servidor, xhrs, timers, nSubidas, nOperaciones>>
    /\ UNCHANGED <<varsValidador, varsModal, varsTabla, nEdiciones>>

\* handleFileChange dropping the selection when it rejects a file
handleFileChange_olvida(files) ==
    /\ isImportModalOpen /\ processingResults = Null
    /\ processingResults' = Null
    /\ IF Len(files) > 0
       THEN LET e == errorSeleccion(files[1]) IN
            /\ error' = e
            /\ selectedFile' = IF e = Null THEN Some(files[1]) ELSE Null
            /\ ultimo' = Ultimo("handleFileChange",
                                 IF e = Null THEN "aceptado" ELSE "rechazado", 0)
       ELSE /\ error' = Null
            /\ UNCHANGED selectedFile
            /\ ultimo' = Ultimo("handleFileChange", "vacio", 0)
    /\ UNCHANGED <<uploadProgress, uploading>>
    /\ UNCHANGED <<varsValidador, varsPagina, varsTabla, varsRed, varsSubida, nEdiciones>>

handleFileChange(files) ==
    /\ isImportModalOpen /\ processingResults = Null
    /\ processingResults' = Null
    /\ IF Len(files) > 0
       THEN LET e == errorSeleccion(files[1]) IN
            /\ error' = e
            /\ selectedFile' = IF e = Null THEN Some(files[1]) ELSE selectedFile
            /\ ultimo' = Ultimo("handleFileChange",
                                 IF e = Null THEN "aceptado" ELSE "rechazado", 0)
       ELSE /\ error' = Null
            /\ UNCHANGED selectedFile
            /\ ultimo' = Ultimo("handleFileChange", "vacio", 0)
    /\ UNCHANGED <<uploadProgress, uploading>>
    /\ UNCHANGED <<varsValidador, varsPagina, varsTabla, varsRed, varsSubida, nEdiciones>>

handleCancelSelection ==
    /\ isImportModalOpen /\ processingResults = Null
    /\ selectedFile # Null /\ ~uploading
    /\ selectedFile' = Null
    /\ processingResults' = Null
    /\ ultimo' = Ultimo("handleCancelSelection", "", 0)
    /\ UNCHANGED <<uploadProgress, uploading, error>>
    /\ UNCHANGED <<varsValidador, varsPagina, varsTabla, varsRed, varsSubida, nEdiciones>>

\* the Alert's onClose: setError(null)
cerrarError ==
    /\ isImportModalOpen /\ error # Null
    /\ error' = Null
    /\ ultimo' = Ultimo("setError", "", 0)
    /\ UNCHANGED <<uploadProgress, selectedFile, uploading, processingResults>>
    /\ UNCHANGED <<varsValidador, varsPagina, varsTabla, varsRed, varsSubida, nEdiciones>>

\* handleUploadExcel up to its await (either Subir Archivo button)
handleUploadExcel ==
    /\ isImportModalOpen /\ processingResults = Null
    /\ selectedFile # Null /\ ~uploading
    /\ nSubidas < MaxSubidas /\ PuedeRefrescar
    /\ uploading' = TRUE
    /\ error' = Null
    /\ uploadProgress' = 0
    /\ processingResults' = Null
    /\ xhrs' = xhrs \cup {[n |-> nSubidas + 1, file |-> Val(selectedFile), loaded |-> 0]}
    /\ nSubidas' = nSubidas + 1
    /\ subidas' = [subidas EXCEPT !.lista = Append(@, SubidaNueva)]
    /\ ultimo' = Ultimo("handleUploadExcel", "", nSubidas + 1)
    /\ UNCHANGED <<selectedFile, timers>>
    /\ UNCHANGED <<varsValidador, varsPagina, varsTabla, varsRed, nEdiciones>>

\* (event.loaded / event.total) * 100
percentComplete(loaded, total) == (loaded * 100) \div total

\* xhr.upload.onprogress: loaded never goes back within one request
onprogress(x, loaded, lengthComputable) ==
    /\ x \in xhrs
    /\ loaded > x.loaded /\ loaded <= Trozos
    /\ xhrs' = (xhrs \ {x}) \cup {[x EXCEPT !.loaded = loaded]}
    /\ uploadProgress' = IF lengthComputable THEN percentComplete(loaded, Trozos)
                         ELSE uploadProgress
    /\ ultimo' = Ultimo("onprogress", "", x.n)
    /\ UNCHANGED <<selectedFile, uploading, error, processingResults>>
    /\ UNCHANGED <<timers, nSubidas, subidas>>
    /\ UNCHANGED <<varsValidador, varsPagina, varsTabla, varsRed, nEdiciones>>

\* errorTras with a catch block that forgets setError
errorTras_sinCatch(s) ==
    IF s.resuelta
    THEN IF Val(s.data).success THEN error
         ELSE Some("Error al procesar archivo: "
                   \o MsgO(Val(s.data).msg, "Error desconocido"))
    ELSE error

\* the modal's state after  await uploadPromise  has settled
errorTras(s) ==
    IF s.resuelta
    THEN IF Val(s.data).success THEN error
         ELSE Some("Error al procesar archivo: "
                   \o MsgO(Val(s.data).msg, "Error desconocido"))
    ELSE Some(s.message)

processingResultsTras(s) == IF s.resuelta THEN s.data ELSE processingResults

uploadProgressTras(s) == IF s.resuelta THEN 100 ELSE 0

\* setTimeout(() => onImportComplete(), 2000)
timersTras(s, n) ==
    IF s.resuelta /\ Val(s.data).success THEN timers \cup {n} ELSE timers

\* handleUploadExcel from its await to its end
handleUploadExcelFin(x, fin) ==
    /\ x \in xhrs
    /\ LET s == uploadPromise(fin) IN
        /\ uploadProgress' = uploadProgressTras(s)
        /\ processingResults' = processingResultsTras(s)
        /\ error' = errorTras(s)
        /\ timers' = timersTras(s, x.n)
        /\ uploading' = FALSE
        /\ servidor' = IF s.resuelta /\ Val(s.data).success
                       THEN Append(servidor, EImportado(x.n)) ELSE servidor
        /\ subidas' = [subidas EXCEPT
                          !.lista[x.n].terminales = @ + 1,
                          !.lista[x.n].resuelta = s.resuelta,
                          !.lista[x.n].exito = s.resuelta /\ Val(s.data).success,
                          !.lista[x.n].visto = ~s.resuelta /\ isImportModalOpen,
                          !.mostrada = IF s.resuelta THEN x.n ELSE @]
        /\ ultimo' = [Ultimo("handleUploadExcelFin",
                              IF s.resuelta THEN "resuelta" ELSE "rechazada", x.n)
                          EXCEPT !.fin = Some(fin)]
    /\ xhrs' = xhrs \ {x}
    /\ UNCHANGED <<selectedFile, nSubidas, peticiones, nPeticiones, nOperaciones>>
    /\ UNCHANGED <<varsValidador, varsPagina, varsTabla, nEdiciones>>

\* the 2-second timeout of upload n expires: onImportComplete()
timeout(n) ==
    /\ n \in timers
    /\ timers' = timers \ {n}
    /\ loading' = TRUE
    /\ peticiones' = peticiones \cup {PeticionGet}
    /\ nPeticiones' = nPeticiones + 1
    /\ subidas' = [ConRefresco(n) EXCEPT !.lista[n].expirado = TRUE]
    /\ ultimo' = Ultimo("handleImportComplete", "timeout", n)
    /\ UNCHANGED <<estudiantes, alert, isImportModalOpen, servidor, xhrs, nSubidas,
                   nOperaciones>>
    /\ UNCHANGED <<varsValidador, varsModal, varsTabla, nEdiciones>>

(***************************************************************************)
(* ModalEdicionEstudiante: the edit form                                   *)
(***************************************************************************)
Vacio == <<>>

initialForm ==
    [id_estudiante |-> 0, nombre |-> Vacio, apellido |-> Vacio, email |-> Vacio,
     telefono |-> Vacio, carrera |-> Vacio, semestre |-> 1, promedio |-> PNum(0)]

SinErrores == [c \in {} |-> ""]

EsEspacio(c) == c = " "

RECURSIVE trimStart(_)
trimStart(s) ==
    IF Len(s) > 0 /\ EsEspacio(Head(s)) THEN trimStart(Tail(s)) ELSE s

RECURSIVE trimEnd(_)
trimEnd(s) ==
    IF Len(s) > 0 /\ EsEspacio(s[Len(s)]) THEN trimEnd(SubSeq(s, 1, Len(s) - 1)) ELSE s

\* String.prototype.trim
trim(s) == trimEnd(trimStart(s))

Digitos == {"0", "1", "2", "3", "4", "5", "6", "7", "8", "9"}

DigitVal(c) ==
    CASE c = "0" -> 0 [] c = "1" -> 1 [] c = "2" -> 2 [] c = "3" -> 3 [] c = "4" -> 4
      [] c = "5" -> 5 [] c = "6" -> 6 [] c = "7" -> 7 [] c = "8" -> 8 [] c = "9" -> 9

\* the longest prefix of s made of digits
RECURSIVE prefijoDigitos(_)
prefijoDigitos(s) ==
    IF Len(s) > 0 /\ Head(s) \in Digitos
    THEN <<Head(s)>> \o prefijoDigitos(Tail(s)) ELSE <<>>

RECURSIVE valorDigitos(_)
valorDigitos(d) ==
    IF Len(d) = 0 THEN 0
    ELSE 10 * valorDigitos(SubSeq(d, 1, Len(d) - 1)) + DigitVal(d[Len(d)])

ConSigno(s) == Len(s) > 0 /\ Head(s) \in {"-", "+"}
Signo(s) == IF Len(s) > 0 /\ Head(s) = "-" THEN -1 ELSE 1
SinSigno(s) == IF ConSigno(s) THEN Tail(s) ELSE s

NaN == [nan |-> TRUE, v |-> 0]
Num(x) == [nan |-> FALSE, v |-> x]

\* parseInt(value, 10)
parseInt(value) ==
    LET t == trimStart(value)
        d == prefijoDigitos(SinSigno(t))
    IN  IF Len(d) = 0 THEN NaN ELSE Num(Signo(t) * valorDigitos(d))

\* parseFloat(value), in tenths; the digits after the first decimal are dropped
parseFloat(value) ==
    LET t == trimStart(value)
        u == SinSigno(t)
        d == prefijoDigitos(u)
        r == SubSeq(u, Len(d) + 1, Len(u))
        f == IF Len(r) > 0 /\ Head(r) = "." THEN prefijoDigitos(Tail(r)) ELSE <<>>
    IN  IF Len(d) = 0 /\ Len(f) = 0 THEN NaN
        ELSE Num(Signo(t) * (10 * valorDigitos(d)
                             + (IF Len(f) > 0 THEN DigitVal(f[1]) ELSE 0)))

\* [^\s@]+ matches the whole of s
SinEspacioNiArroba(s) ==
    Len(s) > 0 /\ \A k \in 1..Len(s) : ~EsEspacio(s[k]) /\ s[k] # "@"

\* /^[^\s@]+@[^\s@]+\.[^\s@]+$/.test(s)
emailRegex(s) ==
    \E i \in 1..Len(s) : \E j \in 1..Len(s) :
        /\ i < j /\ s[i] = "@" /\ s[j] = "."
        /\ SinEspacioNiArroba(SubSeq(s, 1, i - 1))
        /\ SinEspacioNiArroba(SubSeq(s, i + 1, j - 1))
        /\ SinEspacioNiArroba(SubSeq(s, j + 1, Len(s)))

\* formDe keeping the identifier of initialForm
formDe_sinId(estudiante) ==
    [estudiante EXCEPT !.promedio = IF @ = PNull THEN PVacio ELSE @,
                       !.id_estudiante = 0]

\* the form an opened modal shows for a row: a null promedio becomes ''
formDe(estudiante) ==
    [estudiante EXCEPT !.promedio = IF @ = PNull THEN PVacio ELSE @]

\* processedValue of handleChange
processedValue(name, value) ==
    IF name = "semestre"
    THEN LET n == parseInt(value) IN IF n.nan \/ n.v = 0 THEN 1 ELSE n.v
    ELSE IF name = "promedio"
    THEN IF value = Vacio THEN PVacio
         ELSE LET x == parseFloat(value) IN IF x.nan THEN PNaN ELSE PNum(x.v)
    ELSE value

Campos == {"nombre", "apellido", "email", "telefono", "carrera", "semestre", "promedio"}

\* newErrors of validateForm, field by field
errorDe(form, campo) ==
    CASE campo = "nombre" ->
            IF trim(form.nombre) = Vacio THEN "El nombre es obligatorio" ELSE ""
      [] campo = "apellido" ->
            IF trim(form.apellido) = Vacio THEN "El apellido es obligatorio" ELSE ""
      [] campo = "email" ->
            IF trim(form.email) = Vacio THEN "El email es obligatorio"
            ELSE IF ~emailRegex(form.email) THEN "El email no es valido" ELSE ""
      [] campo = "telefono" ->
            IF trim(form.telefono) = Vacio THEN "El telefono es obligatorio" ELSE ""
      [] campo = "carrera" ->
            IF form.carrera = Vacio \/ trim(form.carrera) = Vacio
            THEN "La carrera es obligatoria" ELSE ""
      [] campo = "semestre" ->
            IF form.semestre < 1 \/ form.semestre > 12
            THEN "El semestre debe estar entre 1 y 12" ELSE ""
      [] campo = "promedio" ->
            IF /\ form.promedio # PVacio /\ form.promedio # PNull
               /\ \/ form.promedio = PNaN
                  \/ form.promedio.v < 0
                  \/ form.promedio.v > 10 * 10
            THEN "El promedio debe estar entre 0 y 10" ELSE ""

\* validateForm without its promedio rule
validateForm_sinPromedio(form) ==
    [c \in {d \in Campos \ {"promedio"} : errorDe(form, d) # ""} |-> errorDe(form, c)]

validateForm(form) ==
    [c \in {d \in Campos : errorDe(form, d) # ""} |-> errorDe(form, c)]

\* the forms the modal may hold for the first row once the user has typed:
\* each field right, empty, or wrong in one of its ways
Formularios ==
    { [id_estudiante |-> E1.id_estudiante, nombre |-> n, apellido |-> a, email |-> e,
       telefono |-> t, carrera |-> c, semestre |-> s, promedio |-> p] :
          n \in {Ana, <<>>, <<" ">>},
          a \in {Lee, <<>>},
          e \in {EmailBueno, <<>>, <<"b", "a", "d">>, <<"a", "@", "b">>,
                 <<"a", "@", ".", "c">>},
          t \in {Tel, <<" ">>},
          c \in {Medicina, <<>>},
          s \in {1, 12, 13, -1},
          p \in {PVacio, PNum(0), PNum(100), PNum(110), PNum(-5)} }

\* Object.keys(newErrors).length === 0
formularioValido(form) == DOMAIN validateForm(form) = {}

\* estudianteProcesado of handleGuardarEdicion
estudianteProcesado(estudianteEditado) ==
    [estudianteEditado EXCEPT
        !.promedio = IF @ = PVacio THEN PNum(0)
                     ELSE IF @ = PNull THEN PNaN ELSE @]

\* JSON.stringify(estudiante): NaN is written as null
JSONstringify(estudiante) ==
    [estudiante EXCEPT !.promedio = IF @ = PNaN THEN PNull ELSE @]

(***************************************************************************)
(* DinamicTable with its edit modal                                        *)
(***************************************************************************)
\* what the user may type into a field of the form
Entradas ==
    { <<"nombre", <<" ">>>>,
      <<"email", <<"a", "@", "b">>>>,
      <<"semestre", <<"1", "3">>>>,
      <<"promedio", <<>>>>, <<"promedio", <<"1", "1">>>>, <<"promedio", <<"7", ".", "5">>>> }

Filas == {estudiantes[k] : k \in 1..Len(estudiantes)}

\* getRowId: the key the grid shows a row under, its identifier or, for a row
\* without one, azar = Math.random()
getRowId(row, azar) ==
    IF row.id_estudiante # 0 THEN [t |-> "id", v |-> row.id_estudiante]
    ELSE [t |-> "azar", v |-> azar]

\* a record the service lists without an identifier
SinIdentificador == [E2 EXCEPT !.id_estudiante = 0]

\* handleOpenModal(row), and the form's useEffect([open, estudiante])
handleOpenModal(row) ==
    /\ ~modalOpen /\ ~isImportModalOpen /\ row \in Filas
    /\ estudianteSeleccionado' = Some(row)
    /\ modalOpen' = TRUE
    /\ formData' = formDe(row)
    /\ errors' = SinErrores
    /\ ultimo' = Ultimo("handleOpenModal", "", row.id_estudiante)
    /\ UNCHANGED <<varsValidador, varsPagina, varsModal, varsRed, varsSubida, nEdiciones>>

\* handleCloseModal (Cancelar, or the dialog dismissed): the form unmounts
handleCloseModal ==
    /\ modalOpen
    /\ modalOpen' = FALSE
    /\ estudianteSeleccionado' = Null
    /\ formData' = initialForm
    /\ errors' = SinErrores
    /\ ultimo' = Ultimo("handleCloseModal", "", 0)
    /\ UNCHANGED <<varsValidador, varsPagina, varsModal, varsRed, varsSubida, nEdiciones>>

\* handleChange forgetting every error on any change
handleChange_limpiaTodo(name, value) ==
    /\ modalOpen /\ nEdiciones < MaxEdiciones
    /\ formData' = [formData EXCEPT ![name] = processedValue(name, value)]
    /\ errors' = SinErrores
    /\ nEdiciones' = nEdiciones + 1
    /\ ultimo' = Ultimo("handleChange", name, 0)
    /\ UNCHANGED <<modalOpen, estudianteSeleccionado>>
    /\ UNCHANGED <<varsValidador, varsPagina, varsModal, varsRed, varsSubida>>

handleChange(name, value) ==
    /\ modalOpen /\ nEdiciones < MaxEdiciones
    /\ formData' = [formData EXCEPT ![name] = processedValue(name, value)]
    /\ errors' = IF name \in DOMAIN errors /\ errors[name] # ""
                 THEN [errors EXCEPT ![name] = ""] ELSE errors
    /\ nEdiciones' = nEdiciones + 1
    /\ ultimo' = Ultimo("handleChange", name, 0)
    /\ UNCHANGED <<modalOpen, estudianteSeleccionado>>
    /\ UNCHANGED <<varsValidador, varsPagina, varsModal, varsRed, varsSubida>>

\* handleUpdateEstudiante up to its await: the PUT request it adds
PeticionPut(estudiante) ==
    Peticion(nPeticiones + 1, "PUT", estudiante.id_estudiante,
             Some(JSONstringify(estudiante)))

\* handleSubmit: validateForm, then onGuardar = handleGuardarEdicion, which
\* calls onEdit = handleUpdateEstudiante and closes the modal
handleSubmit ==
    /\ modalOpen
    /\ IF formularioValido(formData)
       THEN /\ nOperaciones < MaxGuardados
            /\ loading' = TRUE
            /\ peticiones' = peticiones \cup {PeticionPut(estudianteProcesado(formData))}
            /\ nPeticiones' = nPeticiones + 1
            /\ nOperaciones' = nOperaciones + 1
            /\ modalOpen' = FALSE
            /\ estudianteSeleccionado' = Null
            /\ formData' = initialForm
            /\ errors' = SinErrores
            /\ ultimo' = Ultimo("handleSubmit", "valido", nPeticiones + 1)
       ELSE /\ errors' = validateForm(formData)
            /\ ultimo' = Ultimo("handleSubmit", "invalido", 0)
            /\ UNCHANGED <<loading, peticiones, nPeticiones, nOperaciones,
                           modalOpen, estudianteSeleccionado, formData>>
    /\ UNCHANGED <<estudiantes, alert, isImportModalOpen, servidor, nEdiciones>>
    /\ UNCHANGED <<varsValidador, varsModal, varsSubida>>

\* peticionesTras with a refresh on every answer
peticionesTras_siempre(p, r) == (peticiones \ {p}) \cup {PeticionGet}

\* the requests in flight once a delete or an update has seen answer r to p:
\* fetchEstudiantes() is called on success only
peticionesTras(p, r) ==
    IF Exito(r) THEN (peticiones \ {p}) \cup {PeticionGet} ELSE peticiones \ {p}

\* the notification after a delete or an update has seen answer r
alertTras(r, hecho) ==
    IF r.tipo = "json"
    THEN IF r.success THEN showAlert(hecho, "success")
         ELSE showAlert("Error: " \o MsgO(r.msg, "Error desconocido"), "error")
    ELSE showAlert("Error: " \o MensajeError(r), "error")

\* a delete or an update from its await to its end
mutacionRespuesta(p, op, hecho) ==
    /\ p.resp # Null
    /\ \E r \in Respuestas(p) :
        /\ peticiones' = peticionesTras(p, r)
        /\ nPeticiones' = Cardinality(peticiones' \ peticiones) + nPeticiones
        /\ alert' = alertTras(r, hecho)
        /\ ultimo' = Ultimo(op, IF Exito(r) THEN "ok" ELSE r.tipo, p.n)
    /\ loading' = FALSE
    /\ UNCHANGED <<estudiantes, isImportModalOpen, servidor, nOperaciones, nEdiciones>>
    /\ UNCHANGED <<varsValidador, varsModal, varsTabla, varsSubida>>

handleUpdateEstudianteRespuesta(p) ==
    /\ p.metodo = "PUT"
    /\ mutacionRespuesta(p, "handleUpdateEstudiante", "Estudiante actualizado correctamente")

\* handleDeleteEstudiante(id) up to its await
handleDeleteEstudiante(id) ==
    /\ ~modalOpen /\ ~isImportModalOpen
    /\ \E row \in Filas : row.id_estudiante = id
    /\ nOperaciones < MaxOperaciones
    /\ loading' = TRUE
    /\ peticiones' = peticiones \cup {Peticion(nPeticiones + 1, "DELETE", id, Null)}
    /\ nPeticiones' = nPeticiones + 1
    /\ nOperaciones' = nOperaciones + 1
    /\ ultimo' = Ultimo("handleDeleteEstudiante", "inicio", nPeticiones + 1)
    /\ UNCHANGED <<estudiantes, alert, isImportModalOpen, servidor, nEdiciones>>
    /\ UNCHANGED <<varsValidador, varsModal, varsTabla, varsSubida>>

handleDeleteEstudianteRespuesta(p) ==
    /\ p.metodo = "DELETE"
    /\ mutacionRespuesta(p, "handleDeleteEstudiante", "Estudiante eliminado correctamente")

\* handleExportAllStudents up to its await
handleExportAllStudents ==
    /\ ~modalOpen /\ ~isImportModalOpen
    /\ ~loading /\ Len(estudiantes) # 0
    /\ nOperaciones < MaxOperaciones
    /\ loading' = TRUE
    /\ peticiones' = peticiones \cup {Peticion(nPeticiones + 1, "EXPORT", 0, Null)}
    /\ nPeticiones' = nPeticiones + 1
    /\ nOperaciones' = nOperaciones + 1
    /\ ultimo' = Ultimo("handleExportAllStudents", "inicio", nPeticiones + 1)
    /\ UNCHANGED <<estudiantes, alert, isImportModalOpen, servidor, nEdiciones>>
    /\ UNCHANGED <<varsValidador, varsModal, varsTabla, varsSubida>>

\* the notification after the export has seen answer r: any 2xx is a file
alertTrasExport(r) ==
    IF r.tipo = "json"
    THEN showAlert("Lista de estudiantes exportada correctamente", "success")
    ELSE showAlert("Error al exportar estudiantes: " \o MensajeError(r), "error")

\* handleExportAllStudents from its await to its end
handleExportAllStudentsRespuesta(p) ==
    /\ p.metodo = "EXPORT" /\ p.resp # Null
    /\ \E r \in Respuestas(p) :
        /\ alert' = alertTrasExport(r)
        /\ ultimo' = Ultimo("handleExportAllStudents",
                             IF r.tipo = "json" THEN "ok" ELSE r.tipo, p.n)
    /\ loading' = FALSE
    /\ peticiones' = peticiones \ {p}
    /\ UNCHANGED <<estudiantes, isImportModalOpen, servidor, nPeticiones, nOperaciones,
                   nEdiciones>>
    /\ UNCHANGED <<varsValidador, varsModal, varsTabla, varsSubida>>

\* handleDownloadTemplate up to its await
handleDownloadTemplate ==
    /\ ~modalOpen /\ ~isImportModalOpen
    /\ nOperaciones < MaxOperaciones
    /\ peticiones' = peticiones \cup {Peticion(nPeticiones + 1, "PLANTILLA", 0, Null)}
    /\ nPeticiones' = nPeticiones + 1
    /\ nOperaciones' = nOperaciones + 1
    /\ ultimo' = Ultimo("handleDownloadTemplate", "inicio", nPeticiones + 1)
    /\ UNCHANGED <<estudiantes, loading, alert, isImportModalOpen, servidor, nEdiciones>>
    /\ UNCHANGED <<varsValidador, varsModal, varsTabla, varsSubida>>

\* the notification after the template download has seen answer r
alertTrasPlantilla(r) ==
    IF r.tipo = "json"
    THEN showAlert("Plantilla descargada correctamente", "success")
    ELSE showAlert("Error al descargar plantilla: " \o MensajeError(r), "error")

\* handleDownloadTemplate from its await to its end
handleDownloadTemplateRespuesta(p) ==
    /\ p.metodo = "PLANTILLA" /\ p.resp # Null
    /\ \E r \in Respuestas(p) :
        /\ alert' = alertTrasPlantilla(r)
        /\ ultimo' = Ultimo("handleDownloadTemplate",
                             IF r.tipo = "json" THEN "ok" ELSE r.tipo, p.n)
    /\ peticiones' = peticiones \ {p}
    /\ UNCHANGED <<estudiantes, loading, isImportModalOpen, servidor, nPeticiones,
                   nOperaciones, nEdiciones>>
    /\ UNCHANGED <<varsValidador, varsModal, varsTabla, varsSubida>>

(***************************************************************************)
(* ModalEstudiante.tsx: the edit form the table imports                     *)
(***************************************************************************)
\* this form keeps semestre and promedio as the row gave them or as the
\* number field holds them, and only compares them: each is kept as the
\* number the comparison sees, in tenths, '' as PVacio and null as PNull
formDeEstudiante(estudiante) == [estudiante EXCEPT !.semestre = PNum(10 * @)]

\* the number  <  and  >  make of a value: 0 of '' and of null
aNumero(valor) ==
    CASE valor.t = "num" -> Num(valor.v)
      [] valor.t = "nan" -> NaN
      [] OTHER -> Num(0)

\* [name]: value  of handleChange
valorEstudiante(name, value) ==
    IF name \in {"semestre", "promedio"}
    THEN IF value = Vacio THEN PVacio
         ELSE LET x == parseFloat(value) IN IF x.nan THEN PNaN ELSE PNum(x.v)
    ELSE value

\* newErrors of validateForm, field by field
errorDeEstudiante(form, campo) ==
    CASE campo = "nombre" ->
            IF trim(form.nombre) = Vacio THEN "El nombre es obligatorio" ELSE ""
      [] campo = "apellido" ->
            IF trim(form.apellido) = Vacio THEN "El apellido es obligatorio" ELSE ""
      [] campo = "email" ->
            IF trim(form.email) = Vacio THEN "El email es obligatorio"
            ELSE IF ~emailRegex(form.email) THEN "El email no es valido" ELSE ""
      [] campo = "telefono" ->
            IF trim(form.telefono) = Vacio THEN "El telefono es obligatorio" ELSE ""
      [] campo = "carrera" ->
            IF form.carrera = Vacio THEN "La carrera es obligatoria" ELSE ""
      [] campo = "semestre" ->
            LET n == aNumero(form.semestre)
            IN IF ~n.nan /\ (n.v < 1 * 10 \/ n.v > 12 * 10)
               THEN "El semestre debe estar entre 1 y 12" ELSE ""
      [] campo = "promedio" ->
            LET n == aNumero(form.promedio)
            IN IF ~n.nan /\ (n.v < 0 \/ n.v > 10 * 10)
               THEN "El promedio debe estar entre 0 y 10" ELSE ""

validateFormEstudiante(form) ==
    [c \in {d \in Campos : errorDeEstudiante(form, d) # ""} |-> errorDeEstudiante(form, c)]

\* the forms this modal may hold for the first row once the user has typed
FormulariosEstudiante ==
    { [id_estudiante |-> E1.id_estudiante, nombre |-> n, apellido |-> a, email |-> e,
       telefono |-> t, carrera |-> c, semestre |-> s, promedio |-> p] :
          n \in {Ana, <<>>, <<" ">>},
          a \in {Lee, <<>>},
          e \in {EmailBueno, <<>>, <<"b", "a", "d">>, <<"a", "@", "b">>},
          t \in {Tel, <<" ">>},
          c \in {Medicina, <<>>},
          s \in {PNum(10), PNum(120), PNum(130), PVacio},
          p \in {PVacio, PNum(0), PNum(100), PNum(110), PNum(-5)} }

\* what the user may type into a field of this form
EntradasEstudiante ==
    { <<"nombre", <<" ">>>>,
      <<"email", <<"a", "@", "b">>>>,
      <<"semestre", <<"1", "3">>>>, <<"semestre", <<"3", ".", "5">>>>,
      <<"promedio", <<>>>>, <<"promedio", <<"1", "1">>>> }

handleChangeEstudiante(name, value) ==
    /\ modalOpen /\ nEdiciones < MaxEdiciones
    /\ formData' = [formData EXCEPT ![name] = valorEstudiante(name, value)]
    /\ errors' = IF name \in DOMAIN errors /\ errors[name] # ""
                 THEN [errors EXCEPT ![name] = ""] ELSE errors
    /\ nEdiciones' = nEdiciones + 1
    /\ ultimo' = Ultimo("handleChange", name, 0)
    /\ UNCHANGED <<modalOpen, estudianteSeleccionado>>
    /\ UNCHANGED <<varsValidador, varsPagina, varsModal, varsRed, varsSubida>>

\* handleSubmit: validateForm, then onGuardar = handleGuardarEdicion, which
\* calls onEdit with the form as it is and closes the modal
handleSubmitEstudiante ==
    /\ modalOpen
    /\ IF DOMAIN validateFormEstudiante(formData) = {}
       THEN /\ nOperaciones < MaxGuardados
            /\ loading' = TRUE
            /\ peticiones' = peticiones \cup
                   {Peticion(nPeticiones + 1, "PUT", formData.id_estudiante,
                             Some(JSONstringify(formData)))}
            /\ nPeticiones' = nPeticiones + 1
            /\ nOperaciones' = nOperaciones + 1
            /\ modalOpen' = FALSE
            /\ estudianteSeleccionado' = Null
            /\ formData' = initialForm
            /\ errors' = SinErrores
            /\ ultimo' = Ultimo("handleSubmit", "valido", nPeticiones + 1)
       ELSE /\ errors' = validateFormEstudiante(formData)
            /\ ultimo' = Ultimo("handleSubmit", "invalido", 0)
            /\ UNCHANGED <<loading, peticiones, nPeticiones, nOperaciones,
                           modalOpen, estudianteSeleccionado, formData>>
    /\ UNCHANGED <<estudiantes, alert, isImportModalOpen, servidor, nEdiciones>>
    /\ UNCHANGED <<varsValidador, varsModal, varsSubida>>

(***************************************************************************)
(* ImportResultsDisplay: what the results view renders                     *)
(***************************************************************************)
\* a JavaScript number is an IEEE 754 double; a positive one is kept as the
\* bits of its significand, most significant first, and the exponent e of the
\* last bit: its value is the integer the bits spell, times 2^e
Mantisa == 53

\* the arithmetic goes Paso bits at a time, Pasos times for a quotient: enough
\* for a significand and its rounding as long as the divisor is below 2^18
Paso == 13
Pasos == 6

Doble(m, e) == [m |-> m, e |-> e]

Ceros(k) == [i \in 1..k |-> 0]

\* the k bits of a natural number below 2^k
Bits(n, k) == [i \in 1..k |-> (n \div 2^(k - i)) % 2]

\* the natural number some bits spell
RECURSIVE valorDe(_)
valorDe(bs) ==
    IF bs = <<>> THEN 0 ELSE 2 * valorDe(SubSeq(bs, 1, Len(bs) - 1)) + bs[Len(bs)]

\* bs without its leading zeros
sinCeros(bs) ==
    IF \A i \in 1..Len(bs) : bs[i] = 0 THEN <<>>
    ELSE LET k == CHOOSE i \in 1..Len(bs) : bs[i] = 1 /\ \A j \in 1..(i - 1) : bs[j] = 0
         IN SubSeq(bs, k, Len(bs))

\* the bits of the number after the one bs spells
masUno(bs) ==
    IF \A i \in 1..Len(bs) : bs[i] = 1 THEN <<1>> \o Ceros(Len(bs))
    ELSE LET k == CHOOSE i \in 1..Len(bs) : bs[i] = 0 /\ \A j \in (i + 1)..Len(bs) : bs[j] = 1
         IN [i \in 1..Len(bs) |-> IF i < k THEN bs[i] ELSE IF i = k THEN 1 ELSE 0]

\* round to nearest, ties to even: the double nearest to the number whose
\* leading bits are bs (last bit of weight 2^e), resto telling whether
\* something non-zero follows them
redondear(bs, e, resto) ==
    IF Len(bs) <= Mantisa
    THEN Doble(bs \o Ceros(Mantisa - Len(bs)), e - (Mantisa - Len(bs)))
    ELSE LET m == SubSeq(bs, 1, Mantisa)
             cola == SubSeq(bs, Mantisa + 1, Len(bs))
             masDeMedio == resto \/ \E i \in 2..Len(cola) : cola[i] = 1
             sube == cola[1] = 1 /\ (masDeMedio \/ m[Mantisa] = 1)
             r == IF sube THEN masUno(m) ELSE m
             e2 == e + Len(cola)
         IN IF Len(r) > Mantisa THEN Doble(SubSeq(r, 1, Mantisa), e2 + 1)
            ELSE Doble(r, e2)

\* long division: the bits of the quotient after bs, r being what is left of
\* the dividend
RECURSIVE cociente(_, _, _, _)
cociente(r, b, bs, pasos) ==
    IF pasos = 0 THEN [bs |-> bs, r |-> r]
    ELSE cociente((r * 2^Paso) % b, b, bs \o Bits((r * 2^Paso) \div b, Paso), pasos - 1)

\* a / b for integers a > 0 and b > 0
dividir(a, b) ==
    LET c == cociente(a % b, b, Bits(a \div b, 2 * Paso), Pasos)
    IN redondear(sinCeros(c.bs), 0 - Paso * Pasos, c.r # 0)

\* the bits of  (the number bs spells) * k + acarreo,  Len(bs) a multiple of Paso
RECURSIVE porEntero(_, _, _)
porEntero(bs, k, acarreo) ==
    IF bs = <<>> THEN Bits(acarreo, 2 * Paso)
    ELSE LET t == valorDe(SubSeq(bs, Len(bs) - Paso + 1, Len(bs))) * k + acarreo
         IN porEntero(SubSeq(bs, 1, Len(bs) - Paso), k, t \div 2^Paso)
                \o Bits(t % 2^Paso, Paso)

\* x * k for a double x > 0 and an integer k > 0
multiplicar(x, k) ==
    LET relleno == (Paso - (Len(x.m) % Paso)) % Paso
    IN redondear(sinCeros(porEntero(Ceros(relleno) \o x.m, k, 0)), x.e, FALSE)

\* Math.round of a double x > 0: the nearest integer, a half going up
MathRound(x) ==
    LET enteros == Len(x.m) + x.e
    IN IF enteros < 0 THEN 0
       ELSE IF enteros >= Len(x.m) THEN valorDe(x.m \o Ceros(x.e))
       ELSE valorDe(SubSeq(x.m, 1, enteros)) + x.m[enteros + 1]

\* a property the destructuring gives a default when the body has not got it
PorDefecto(campo, defecto) == IF campo = Null THEN defecto ELSE Val(campo)

tieneErrores(results) == Len(PorDefecto(results.errores, <<>>)) > 0

\* totalProcesados ? Math.round((insertados / totalProcesados) * 100) : 0
\* (0 / totalProcesados is 0, and so are 0 * 100 and Math.round(0))
porcentaje(insertados, totalProcesados) ==
    IF totalProcesados = 0 \/ insertados = 0 THEN 0
    ELSE MathRound(multiplicar(dividir(insertados, totalProcesados), 100))

porcentajeExito(results) ==
    porcentaje(PorDefecto(results.insertados, 0), PorDefecto(results.totalProcesados, 0))

\* the primary status message
mensaje(results) ==
    IF results.success
    THEN MsgO(results.message,
              "Se han procesado " \o ToString(PorDefecto(results.totalProcesados, 0))
                  \o " registros correctamente.")
    ELSE MsgO(results.msg, "Ha ocurrido un error durante la importacion.")

\* the statistics chips, there only if records were processed
chips(results) ==
    IF PorDefecto(results.totalProcesados, 0) > 0
    THEN Some([insertados |-> PorDefecto(results.insertados, 0),
               conErrores |-> IF tieneErrores(results)
                              THEN Some(Len(PorDefecto(results.errores, <<>>)))
                              ELSE Null,
               completado |-> porcentajeExito(results)])
    ELSE Null

\* the accordion without its list
detalles_sinLista(results) ==
    IF tieneErrores(results) /\ ~results.success
    THEN Some(PorDefecto(results.errores, <<>>))
    ELSE Null

\* the accordion of error details, one item for each of errores
detalles(results) ==
    IF tieneErrores(results) THEN Some(PorDefecto(results.errores, <<>>)) ELSE Null

ImportResultsDisplay(results) ==
    [icono |-> IF results.success THEN "CheckCircleIcon" ELSE "ErrorIcon",
     mensaje |-> mensaje(results),
     chips |-> chips(results),
     detalles |-> detalles(results)]

\* what the import dialog shows of an upload's outcome: its error line and,
\* once there are results, the results view
Vista ==
    [abierto |-> isImportModalOpen,
     error |-> error,
     resultados |-> IF processingResults = Null THEN Null
                    ELSE Some(ImportResultsDisplay(Val(processingResults)))]

(***************************************************************************)
(* Initial states and specifications                                       *)
(***************************************************************************)
\* the page once mounted: useEffect(() => { fetchEstudiantes() }, []) has run
InitPagina ==
    /\ estudiantes = <<>>
    /\ loading = TRUE
    /\ alert = AlertInicial
    /\ isImportModalOpen = FALSE
    /\ uploadProgress = 0
    /\ selectedFile = Null
    /\ uploading = FALSE
    /\ error = Null
    /\ processingResults = Null
    /\ modalOpen = FALSE
    /\ estudianteSeleccionado = Null
    /\ formData = initialForm
    /\ errors = SinErrores
    /\ peticiones = {Peticion(1, "GET", 0, Null)}
    /\ xhrs = {}
    /\ timers = {}
    /\ servidor = ServidorInicial
    /\ nPeticiones = 1
    /\ nOperaciones = 0
    /\ nSubidas = 0
    /\ nEdiciones = 0
    /\ ultimo = Ultimo("mount", "", 1)
    /\ subidas = [lista |-> <<>>, mostrada |-> 0]

ArchivoInicial == [name |-> <<"a">>, type |-> "", size |-> 0]

\* the validator applied to one candidate file after another
InitValidador ==
    /\ archivo \in Archivos
    /\ validacion = Null
    /\ InitPagina

Validar ==
    /\ validacion = Null
    /\ validacion' = Some(validarArchivoExcel(archivo))
    /\ UNCHANGED <<archivo, nEdiciones, ultimo>>
    /\ UNCHANGED <<varsPagina, varsModal, varsTabla, varsRed, varsSubida>>

\* the next candidate, once the modal's selection has been cancelled
OtroArchivo ==
    /\ validacion # Null
    /\ selectedFile = Null /\ error = Null
    /\ archivo' \in Archivos
    /\ validacion' = Null
    /\ ultimo' = Ultimo("OtroArchivo", "", 0)
    /\ UNCHANGED nEdiciones
    /\ UNCHANGED <<varsPagina, varsModal, varsTabla, varsRed, varsSubida>>

\* the candidate goes through validarArchivoExcel and through the import
\* modal's file input
NextValidador ==
    \/ Validar
    \/ OtroArchivo
    \/ handleOpenImportModal
    \/ handleFileChange(<<archivo>>)
    \/ handleCancelSelection
    \/ cerrarError

SpecValidador == InitValidador /\ [][NextValidador]_vars

\* the page once its first fetchEstudiantes has brought the list
InitCargada ==
    /\ estudiantes = ServidorInicial
    /\ loading = FALSE
    /\ alert = AlertInicial
    /\ isImportModalOpen = FALSE
    /\ uploadProgress = 0
    /\ selectedFile = Null
    /\ uploading = FALSE
    /\ error = Null
    /\ processingResults = Null
    /\ modalOpen = FALSE
    /\ estudianteSeleccionado = Null
    /\ formData = initialForm
    /\ errors = SinErrores
    /\ peticiones = {}
    /\ xhrs = {}
    /\ timers = {}
    /\ servidor = ServidorInicial
    /\ nPeticiones = 0
    /\ nOperaciones = 0
    /\ nSubidas = 0
    /\ nEdiciones = 0
    /\ ultimo = Ultimo("fetchEstudiantes", "ok", 0)
    /\ subidas = [lista |-> <<>>, mostrada |-> 0]

\* the page with its import modal
InitImport ==
    /\ archivo = ArchivoInicial
    /\ validacion = Null
    /\ InitCargada

NextImport ==
    \/ \E p \in peticiones : \E ok \in BOOLEAN : Servir(p, ok)
    \/ \E p \in peticiones : fetchEstudiantesRespuesta(p)
    \/ handleCloseAlert
    \/ handleOpenImportModal
    \/ handleCloseImportModal
    \/ Completar
    \/ DialogOnClose
    \/ \E files \in {<<>>} \cup {<<f>> : f \in ArchivosModal} : handleFileChange(files)
    \/ handleCancelSelection
    \/ cerrarError
    \/ handleUploadExcel
    \/ \E x \in xhrs : \E l \in 1..Trozos : \E lc \in BOOLEAN : onprogress(x, l, lc)
    \/ \E x \in xhrs : \E fin \in Finales : handleUploadExcelFin(x, fin)
    \/ \E n \in timers : timeout(n)

SpecImport == InitImport /\ [][NextImport]_vars

\* the import modal through one upload, ended by any terminal event
InitResultados ==
    /\ archivo = ArchivoInicial
    /\ validacion = Null
    /\ InitCargada

NextResultados ==
    \/ handleOpenImportModal
    \/ \E f \in ArchivosModal : handleFileChange(<<f>>)
    \/ cerrarError
    \/ handleUploadExcel
    \/ \E x \in xhrs : \E fin \in FinalesPosibles : handleUploadExcelFin(x, fin)

SpecResultados == InitResultados /\ [][NextResultados]_vars

\* the page with its table: the delete buttons of the rows and the export
InitTabla ==
    /\ archivo = ArchivoInicial
    /\ validacion = Null
    /\ InitCargada

NextTabla ==
    \/ \E p \in peticiones : \E ok \in BOOLEAN : Servir(p, ok)
    \/ \E p \in peticiones : fetchEstudiantesRespuesta(p)
    \/ handleCloseAlert
    \/ \E row \in Filas : handleDeleteEstudiante(row.id_estudiante)
    \/ \E p \in peticiones : handleDeleteEstudianteRespuesta(p)
    \/ handleExportAllStudents
    \/ \E p \in peticiones : handleExportAllStudentsRespuesta(p)

SpecTabla == InitTabla /\ [][NextTabla]_vars

\* the page with its table: the edit buttons of the rows and the edit modal
InitEdicion ==
    /\ archivo = ArchivoInicial
    /\ validacion = Null
    /\ InitCargada

NextEdicion ==
    \/ \E p \in peticiones : \E ok \in BOOLEAN : Servir(p, ok)
    \/ \E p \in peticiones : fetchEstudiantesRespuesta(p)
    \/ handleCloseAlert
    \/ \E row \in Filas : handleOpenModal(row)
    \/ handleCloseModal
    \/ \E e \in Entradas : handleChange(e[1], e[2])
    \/ handleSubmit
    \/ \E p \in peticiones : handleUpdateEstudianteRespuesta(p)

SpecEdicion == InitEdicion /\ [][NextEdicion]_vars

\* the edit form, open on the first row, holding what the user has typed
InitFormulario ==
    /\ archivo = ArchivoInicial
    /\ validacion = Null
    /\ estudiantes = ServidorInicial
    /\ loading = FALSE
    /\ alert = AlertInicial
    /\ isImportModalOpen = FALSE
    /\ uploadProgress = 0
    /\ selectedFile = Null
    /\ uploading = FALSE
    /\ error = Null
    /\ processingResults = Null
    /\ modalOpen = TRUE
    /\ estudianteSeleccionado = Some(E1)
    /\ formData \in Formularios
    /\ errors = SinErrores
    /\ peticiones = {}
    /\ xhrs = {}
    /\ timers = {}
    /\ servidor = ServidorInicial
    /\ nPeticiones = 0
    /\ nOperaciones = 0
    /\ nSubidas = 0
    /\ nEdiciones = 0
    /\ ultimo = Ultimo("handleOpenModal", "", E1.id_estudiante)
    /\ subidas = [lista |-> <<>>, mostrada |-> 0]

NextFormulario ==
    \/ \E e \in Entradas : handleChange(e[1], e[2])
    \/ handleSubmit
    \/ handleCloseModal

SpecFormulario == InitFormulario /\ [][NextFormulario]_vars

\* the edit form of ModalEstudiante.tsx, open on the first row
InitModalEstudiante ==
    /\ archivo = ArchivoInicial
    /\ validacion = Null
    /\ estudiantes = ServidorInicial
    /\ loading = FALSE
    /\ alert = AlertInicial
    /\ isImportModalOpen = FALSE
    /\ uploadProgress = 0
    /\ selectedFile = Null
    /\ uploading = FALSE
    /\ error = Null
    /\ processingResults = Null
    /\ modalOpen = TRUE
    /\ estudianteSeleccionado = Some(E1)
    /\ formData \in FormulariosEstudiante \cup {formDeEstudiante(E1)}
    /\ errors = SinErrores
    /\ peticiones = {}
    /\ xhrs = {}
    /\ timers = {}
    /\ servidor = ServidorInicial
    /\ nPeticiones = 0
    /\ nOperaciones = 0
    /\ nSubidas = 0
    /\ nEdiciones = 0
    /\ ultimo = Ultimo("handleOpenModal", "", E1.id_estudiante)
    /\ subidas = [lista |-> <<>>, mostrada |-> 0]

NextModalEstudiante ==
    \/ \E e \in EntradasEstudiante : handleChangeEstudiante(e[1], e[2])
    \/ handleSubmitEstudiante
    \/ handleCloseModal

SpecModalEstudiante == InitModalEstudiante /\ [][NextModalEstudiante]_vars

\* the table with a row that has no identifier: the buttons of its rows and
\* the edit modal, used by a user who starts on a row once the page is at rest
InitFilas ==
    /\ archivo = ArchivoInicial
    /\ validacion = Null
    /\ estudiantes = <<E1, SinIdentificador>>
    /\ loading = FALSE
    /\ alert = AlertInicial
    /\ isImportModalOpen = FALSE
    /\ uploadProgress = 0
    /\ selectedFile = Null
    /\ uploading = FALSE
    /\ error = Null
    /\ processingResults = Null
    /\ modalOpen = FALSE
    /\ estudianteSeleccionado = Null
    /\ formData = initialForm
    /\ errors = SinErrores
    /\ peticiones = {}
    /\ xhrs = {}
    /\ timers = {}
    /\ servidor = <<E1, SinIdentificador>>
    /\ nPeticiones = 0
    /\ nOperaciones = 0
    /\ nSubidas = 0
    /\ nEdiciones = 0
    /\ ultimo = Ultimo("fetchEstudiantes", "ok", 0)
    /\ subidas = [lista |-> <<>>, mostrada |-> 0]

NextFilas ==
    \/ \E p \in peticiones : \E ok \in BOOLEAN : Servir(p, ok)
    \/ \E p \in peticiones : fetchEstudiantesRespuesta(p)
    \/ peticiones = {} /\ \E row \in Filas : handleDeleteEstudiante(row.id_estudiante)
    \/ \E p \in peticiones : handleDeleteEstudianteRespuesta(p)
    \/ peticiones = {} /\ \E row \in Filas : handleOpenModal(row)
    \/ handleCloseModal
    \/ \E e \in Entradas : handleChange(e[1], e[2])
    \/ handleSubmit
    \/ \E p \in peticiones : handleUpdateEstudianteRespuesta(p)

SpecFilas == InitFilas /\ [][NextFilas]_vars

\* the page with its table when every list refresh is answered with the
\* list: deletes, which the service may refuse, and the refreshes they start
InitRefrescos ==
    /\ archivo = ArchivoInicial
    /\ validacion = Null
    /\ InitCargada

NextRefrescos ==
    \/ \E p \in peticiones : \E ok \in {TRUE} \cup {p.metodo = "GET"} : Servir(p, ok)
    \/ \E p \in peticiones : fetchEstudiantesRespuesta(p)
    \/ \E row \in Filas : handleDeleteEstudiante(row.id_estudiante)
    \/ \E p \in peticiones : handleDeleteEstudianteRespuesta(p)

SpecRefrescos == InitRefrescos /\ [][NextRefrescos]_vars

\* the whole page: every control, with a budget on what the user starts, and
\* a user who waits while something is outstanding
InitTodo ==
    /\ archivo = ArchivoInicial
    /\ validacion = Null
    /\ InitCargada

Iniciadas == nOperaciones + nSubidas + nEdiciones

\* nothing is outstanding: the user acts between operations, not during them
Reposo == peticiones = {} /\ xhrs = {} /\ timers = {}

\* what goes on without the user: the service, the responses, the progress
\* events and the timeout
Continuaciones ==
    \/ \E p \in peticiones : \E ok \in BOOLEAN : Servir(p, ok)
    \/ \E p \in peticiones : fetchEstudiantesRespuesta(p)
    \/ \E p \in peticiones : handleUpdateEstudianteRespuesta(p)
    \/ \E p \in peticiones : handleDeleteEstudianteRespuesta(p)
    \/ \E p \in peticiones : handleExportAllStudentsRespuesta(p)
    \/ \E p \in peticiones : handleDownloadTemplateRespuesta(p)
    \/ \E x \in xhrs : \E l \in 1..Trozos : \E lc \in BOOLEAN : onprogress(x, l, lc)
    \/ \E x \in xhrs : \E fin \in Finales : handleUploadExcelFin(x, fin)
    \/ \E n \in timers : timeout(n)

\* what the user does
Usuario ==
    \/ handleCloseAlert
    \/ handleOpenImportModal
    \/ handleCloseImportModal
    \/ Completar
    \/ DialogOnClose
    \/ \E files \in {<<>>} \cup {<<f>> : f \in ArchivosModal} : handleFileChange(files)
    \/ handleCancelSelection
    \/ cerrarError
    \/ handleUploadExcel
    \/ \E row \in Filas : handleOpenModal(row)
    \/ handleCloseModal
    \/ \E e \in Entradas : handleChange(e[1], e[2])
    \/ handleSubmit
    \/ \E row \in Filas : handleDeleteEstudiante(row.id_estudiante)
    \/ handleExportAllStudents
    \/ handleDownloadTemplate

NextPagina ==
    \/ Continuaciones
    \/ Reposo /\ Usuario /\ Iniciadas' <= MaxIniciadas

SpecPagina == InitTodo /\ [][NextPagina]_vars

(***************************************************************************)
(* Claims                                                                  *)
(***************************************************************************)
ExtensionExcel(name) ==
    endsWith(toLowerCase(name), ExtXlsx) \/ endsWith(toLowerCase(name), ExtXls)

\* C1: a file whose lower-cased name ends in neither .xlsx nor .xls is
\* rejected by validarArchivoExcel (valido = false), whatever its MIME type
\* and its size.
C1_ExtensionAjenaRechazada ==
    (validacion # Null /\ ~ExtensionExcel(archivo.name)) => ~Val(validacion).valido

\* C2: every upload request that is sent carries a file whose name ends in
\* .xlsx or .xls and whose size is at most 5*1024*1024 bytes, whatever was
\* selected, rejected, cancelled, closed or reopened before.
C2_SoloArchivosAceptadosSeSuben ==
    \A x \in xhrs :
        /\ endsWith(x.file.name, ExtXlsx) \/ endsWith(x.file.name, ExtXls)
        /\ x.file.size <= 5 * 1024 * 1024

\* C2 witness: an upload is in flight and the modal shows the rejection of a
\* file over the size limit.
C2_Testigo ==
    /\ xhrs # {}
    /\ error = Some("El archivo es demasiado grande. El tamano maximo permitido es 5MB")

Subidas == 1..Len(subidas.lista)

\* C3: for every upload answered 2xx with success=true the list refresh is
\* issued at most once, and never before the 2-second delay has elapsed,
\* whatever the user does meanwhile; once the delay has elapsed it has been
\* issued exactly once.
C3_UnRefrescoTrasLaEspera ==
    \A n \in Subidas :
        LET u == subidas.lista[n] IN
        u.exito => /\ u.refrescos <= 1
                   /\ u.refrescos > 0 => u.expirado
                   /\ u.expirado => u.refrescos = 1

\* the step that ends upload n
FinDe(n) == subidas'.lista[n].terminales = subidas.lista[n].terminales + 1

EnVuelo(n) == \E x \in xhrs : x.n = n

C5_ProgresoNoDecrece ==
    /\ [](uploadProgress \in 0..100)
    /\ [][(uploading /\ uploading') => uploadProgress' >= uploadProgress]_vars

\* C6: whenever the import modal has just gone from closed to open its
\* transfer state is idle: no selected file, no error, progress 0, no
\* results, not uploading.
C6_AbiertoEnReposo ==
    ultimo.op = "handleOpenImportModal" =>
        /\ selectedFile = Null
        /\ error = Null
        /\ uploadProgress = 0
        /\ processingResults = Null
        /\ ~uploading

\* the numbers of the list fetches among the requests ps
Gets(ps) == {p.n : p \in {q \in ps : q.metodo = "GET"}}

\* the request whose answer the last handler has seen
Respondida == CHOOSE q \in peticiones : q.n = ultimo'.n

Termina(op) == ultimo' # ultimo /\ ultimo'.op = op /\ ultimo'.res # "inicio"

\* C7: when handleDeleteEstudiante sees its delete fail (no response, a
\* non-2xx status, or 2xx with success=false) it leaves estudiantes as it is,
\* issues no refresh and shows an error notification; when it sees
\* success=true it issues fetchEstudiantes exactly once and leaves estudiantes
\* as it is: the list changes only when a refresh response arrives.
C7_EliminarNoTocaLaLista ==
    [][/\ Termina("handleDeleteEstudiante") =>
            /\ estudiantes' = estudiantes
            /\ IF Val(Respondida.resp).ok
               THEN /\ ultimo'.res = "ok"
                    /\ Cardinality(Gets(peticiones') \ Gets(peticiones)) = 1
                    /\ nPeticiones' = nPeticiones + 1
               ELSE /\ ultimo'.res \in {"json", "http", "red"}
                    /\ Gets(peticiones') = Gets(peticiones)
                    /\ nPeticiones' = nPeticiones
                    /\ alert'.open /\ alert'.severity = "error"
       /\ ~(Gets(peticiones') \subseteq Gets(peticiones)) =>
            Termina("handleDeleteEstudiante") /\ ultimo'.res = "ok"
       /\ estudiantes' # estudiantes =>
            Termina("fetchEstudiantes") /\ ultimo'.res = "ok"]_vars

\* C7 witness: a delete has been answered success=true, its refresh is in
\* flight, and the deleted row is still in the local list.
C7_Testigo ==
    /\ ultimo.op = "handleDeleteEstudiante" /\ ultimo.res = "ok"
    /\ Gets(peticiones) # {}
    /\ Len(servidor) < Len(estudiantes)
    /\ estudiantes = ServidorInicial

\* C8: every record sent in the body of a PUT is the record validateForm has
\* just approved, field for field; and a submit that validateForm rejects
\* issues no request and leaves the list unchanged.
C8_CuerpoIgualAlValidado ==
    [][/\ \A p \in peticiones' \ peticiones :
            p.metodo = "PUT" => /\ formularioValido(formData)
                                /\ Val(p.cuerpo) = formData
       /\ (ultimo' # ultimo /\ ultimo'.op = "handleSubmit" /\ ~formularioValido(formData))
            => peticiones' = peticiones /\ estudiantes' = estudiantes]_vars

MensajesDeFallo(res) ==
    CASE res = "http" -> {"Error HTTP: 500"}
      [] res = "red" -> {MsgFetchFallido}
      [] res = "json" -> {MsgServidor, "Error desconocido"}
      [] OTHER -> {}

\* C9: when fetchEstudiantes sees its fetch fail (no response, a non-2xx
\* status, or 2xx with success=false) it keeps estudiantes as it was and shows
\* an error notification carrying the failure message; estudiantes is
\* replaced only by the whole data of a response with success=true.
C9_FalloConservaLaLista ==
    [][/\ Termina("fetchEstudiantes") =>
            IF Val(Respondida.resp).ok
            THEN ultimo'.res = "ok" /\ estudiantes' = Val(Respondida.resp).data
            ELSE /\ estudiantes' = estudiantes
                 /\ \E m \in MensajesDeFallo(ultimo'.res) :
                        alert' = showAlert("Error al cargar estudiantes: " \o m, "error")
       /\ estudiantes' # estudiantes =>
            Termina("fetchEstudiantes") /\ Val(Respondida.resp).ok]_vars

\* C9 witness: a refresh has failed with HTTP 500 after the service's list
\* had changed; the notification says so and the previous list is still shown.
C9_Testigo ==
    /\ ultimo.op = "fetchEstudiantes" /\ ultimo.res = "http"
    /\ alert = showAlert("Error al cargar estudiantes: Error HTTP: 500", "error")
    /\ estudiantes = ServidorInicial
    /\ servidor # ServidorInicial

EnVueloDe(metodo, id) == {p \in peticiones : p.metodo = metodo /\ p.id = id}

\* C10: at no time are two operations started from the same control in
\* flight: two deletes of one row, two saves, two exports or two uploads.
C10_UnaOperacionPorControl ==
    /\ \A p \in peticiones : p.metodo = "DELETE" => EnVueloDe("DELETE", p.id) = {p}
    /\ Cardinality({p \in peticiones : p.metodo = "PUT"}) <= 1
    /\ Cardinality(EnVueloDe("EXPORT", 0)) <= 1
    /\ Cardinality(xhrs) <= 1

\* C11: an upload that has ended in a transport failure has had its failure
\* reason on screen, or still holds it in the error line to be seen: the
\* reason is never dropped unseen, whatever closing and reopening of the
\* modal went on meanwhile.
C11_FalloNuncaPerdido ==
    \A n \in Subidas :
        LET u == subidas.lista[n] IN
        (u.terminales = 1 /\ ~u.resuelta) => (u.visto \/ error # Null)

\* C12: estudiantes changes only in the step that completes a successful
\* fetchEstudiantes, and then it becomes exactly the list of that response;
\* every other step of the page (delete, update, import, export, template
\* download, form edits, notifications, opening and closing the modals)
\* leaves it as it is.
C12_SoloElRefrescoCambiaLaLista ==
    [][estudiantes' # estudiantes =>
          /\ Termina("fetchEstudiantes")
          /\ Val(Respondida.resp).ok
          /\ estudiantes' = Val(Respondida.resp).data]_vars

\* C12 witness: a refresh has replaced the list by a different one.
C12_Testigo ==
    /\ ultimo.op = "fetchEstudiantes" /\ ultimo.res = "ok"
    /\ estudiantes # ServidorInicial
    /\ estudiantes = servidor

\* C13: the transfer state of the import modal is one of idle, in progress,
\* completed or failed: uploading never holds together with a processing
\* result, and a processing result never holds together with an upload error.
C13_EstadosExcluyentes ==
    /\ ~(uploading /\ processingResults # Null)
    /\ ~(processingResults # Null /\ error # Null)

ExtensionModal(name) == endsWith(name, ExtXlsx) \/ endsWith(name, ExtXls)

\* the import modal's file input has just been given the candidate file
Elegido == ultimo.op = "handleFileChange" /\ ultimo.res # "vacio"

\* C14: for a file with an accepted extension the size rule accepts exactly
\* the sizes up to 5*1024*1024 bytes: 5*1024*1024 is accepted and
\* 5*1024*1024+1 is rejected, by validarArchivoExcel and by the import
\* modal's handleFileChange alike.
C14_LimiteDeTamano ==
    /\ (validacion # Null /\ ExtensionExcel(archivo.name)) =>
          (Val(validacion).valido <=> archivo.size <= 5 * 1024 * 1024)
    /\ (Elegido /\ ExtensionModal(archivo.name)) =>
          (selectedFile = Some(archivo) <=> archivo.size <= 5 * 1024 * 1024)

\* C14 witness: a file of exactly 5*1024*1024 bytes has passed both gates.
C14_Testigo ==
    /\ archivo.size = 5 * 1024 * 1024
    /\ validacion # Null /\ Val(validacion).valido
    /\ Elegido /\ selectedFile = Some(archivo)

\* C15: the import modal's file input and validarArchivoExcel are the same
\* gate: a file becomes the selected file exactly when validarArchivoExcel
\* finds it valid, whatever its name's letter case, its MIME type and its
\* size.
C15_MismaPuerta ==
    (validacion # Null /\ Elegido) =>
        (selectedFile = Some(archivo) <=> Val(validacion).valido)

\* C16: a file that breaks both the extension rule and the size rule gets one
\* error for each of the two rules from validarArchivoExcel, not only the
\* first one found.
C16_TodasLasViolaciones ==
    (validacion # Null /\ ~ExtensionExcel(archivo.name) /\ archivo.size > 5 * 1024 * 1024)
        => Len(Val(validacion).errores) = 1 + 1

\* the terminal event of the upload that has just ended, while nothing else
\* has happened since
Final == Val(ultimo.fin)
Terminada == ultimo.op = "handleUploadExcelFin"
Analizada(f) == f.evento = "load" /\ f.status \in 200..299 /\ f.parsea

\* the kinds of failing terminal events: a 2xx answer that does not parse,
\* each non-2xx status, a network failure, a timeout
ClaseDeFallo(f) ==
    IF f.evento # "load" THEN f.evento
    ELSE IF f.status \in 200..299 THEN "malformada" ELSE ToString(f.status)

\* C17: every terminal event of an upload gives one outcome: a 2xx answer that
\* parses gives its parsed body as the results and no failure; every other
\* event gives no results and a failure reason, which no terminal event of
\* another kind gives, and which for a status other than 400, 413 and 500 is
\* the generic HTTP error with that status code
C17_UnResultadoPorFinal ==
    Terminada =>
        IF Analizada(Final)
        THEN processingResults = Final.cuerpo
        ELSE /\ processingResults = Null
             /\ error # Null
             /\ \A g \in FinalesPosibles :
                    (~Analizada(g) /\ ClaseDeFallo(g) # ClaseDeFallo(Final))
                        => error # Some(uploadPromise(g).message)
             /\ (Final.evento = "load" /\ Final.status \notin (200..299) \cup {400, 413, 500})
                    => error = Some("Error HTTP: " \o ToString(Final.status))

C17_Testigo ==
    /\ Terminada /\ Final.evento = "load" /\ Final.status = 413
    /\ error = Some("El archivo es demasiado grande")

\* the body the results view is rendering, and what it renders
Resultados == Val(processingResults)
Mostrado == Val(Vista.resultados)

\* C18: the completion percentage of the results view is insertados /
\* totalProcesados * 100 rounded to the nearest integer when totalProcesados
\* is above 0, and 0 when it is 0 or absent
C18_PorcentajeRedondeado ==
    processingResults # Null =>
        LET i == PorDefecto(Resultados.insertados, 0)
            t == PorDefecto(Resultados.totalProcesados, 0)
        IN porcentajeExito(Resultados) = IF t > 0 THEN (2 * 100 * i + t) \div (2 * t) ELSE 0

\* C19: whenever the answer carries per-record errors, the results view holds
\* every one of them, in order, next to its status message, whatever success
\* and totalProcesados are
C19_TodosLosErrores ==
    (processingResults # Null /\ Resultados.errores # Null /\ Val(Resultados.errores) # <<>>)
        => /\ Mostrado.detalles = Resultados.errores
           /\ Mostrado.mensaje = mensaje(Resultados)
           /\ Mostrado.mensaje # ""

C19_Testigo ==
    /\ processingResults # Null /\ Resultados.success
    /\ Resultados.totalProcesados = Null
    /\ Mostrado.detalles = Some(Fallos)
    /\ Mostrado.mensaje = "Importacion completada"

\* the texts the server put in the answer, under message or under msg
Dichos == {Val(c) : c \in {Resultados.message, Resultados.msg} \ {Null}}

\* C20: the message of the results view is a text the server sent, under
\* message or under msg, whenever it sent one; without one it is the default
\* of the outcome, which for a success names totalProcesados; and when a
\* failed import has just ended the error line of the modal carries a text
\* the server sent, whenever it sent one
C20_MensajeDelServidor ==
    processingResults # Null =>
        /\ Dichos # {} => Mostrado.mensaje \in Dichos
        /\ Dichos = {} =>
              Mostrado.mensaje =
                  IF Resultados.success
                  THEN "Se han procesado "
                           \o ToString(PorDefecto(Resultados.totalProcesados, 0))
                           \o " registros correctamente."
                  ELSE "Ha ocurrido un error durante la importacion."
        /\ (Terminada /\ ~Resultados.success /\ Dichos # {}) =>
              \E d \in Dichos : error = Some("Error al procesar archivo: " \o d)

\* s is empty once trimmed
SoloEspacios(s) == \A k \in 1..Len(s) : s[k] = " "

\* s has the shape local@domain.tld: no space, one @ with something before
\* it, and after it a dot that is neither first nor last
FormaDeEmail(s) ==
    /\ \A k \in 1..Len(s) : s[k] # " "
    /\ Cardinality({k \in 1..Len(s) : s[k] = "@"}) = 1
    /\ LET i == CHOOSE k \in 1..Len(s) : s[k] = "@"
       IN /\ i > 1
          /\ \E j \in (i + 2)..(Len(s) - 1) : s[j] = "."

\* the fields whose rule the form violates
Violadas(form) ==
    {c \in {"nombre", "apellido", "telefono", "carrera"} : SoloEspacios(form[c])}
    \cup {c \in {"email"} : ~FormaDeEmail(form.email)}
    \cup {c \in {"semestre"} : form.semestre \notin 1..12}
    \cup {c \in {"promedio"} : /\ form.promedio \notin {PVacio, PNull}
                               /\ \/ form.promedio.t # "num"
                                  \/ form.promedio.v \notin 0..(10 * 10)}

ConError(errores) == {c \in DOMAIN errores : errores[c] # ""}

\* C21, of the validateForm of ModalExel.tsx: a submit accepts the form
\* exactly when it violates no rule, and
\* otherwise the fields it marks with an error are exactly the fields whose
\* rule the form violates, all of them
C21_ReglasIndependientes ==
    [][(modalOpen /\ ultimo'.op = "handleSubmit") =>
          IF Violadas(formData) = {} THEN ultimo'.res = "valido"
          ELSE /\ ultimo'.res = "invalido"
               /\ ConError(errors') = Violadas(formData)]_vars

C21_Testigo ==
    /\ ultimo.op = "handleSubmit" /\ ultimo.res = "invalido"
    /\ formData.nombre = <<>> /\ formData.email = <<"b", "a", "d">>
    /\ formData.semestre = 13 /\ formData.promedio = PNum(110)
    /\ ConError(errors) = {"nombre", "email", "semestre", "promedio"}

\* the fields whose rule a form of ModalEstudiante.tsx violates, semestre and
\* promedio being held there in tenths
ViolaEstudiante(form) ==
    {c \in {"nombre", "apellido", "telefono", "carrera"} : SoloEspacios(form[c])}
    \cup {c \in {"email"} : ~FormaDeEmail(form.email)}
    \cup {c \in {"semestre"} : ~(/\ form.semestre.t = "num"
                                 /\ form.semestre.v \in {10 * k : k \in 1..12})}
    \cup {c \in {"promedio"} : /\ form.promedio \notin {PVacio, PNull}
                               /\ \/ form.promedio.t # "num"
                                  \/ form.promedio.v \notin 0..(10 * 10)}

\* C21, of the validateForm of ModalEstudiante.tsx: a submit accepts the form
\* exactly when it violates no rule, and otherwise marks exactly the fields
\* whose rule the form violates
C21_ReglasEnModalEstudiante ==
    [][(modalOpen /\ ultimo'.op = "handleSubmit") =>
          IF ViolaEstudiante(formData) = {} THEN ultimo'.res = "valido"
          ELSE /\ ultimo'.res = "invalido"
               /\ ConError(errors') = ViolaEstudiante(formData)]_vars

\* the requests just issued
Nuevas == {p \in peticiones' : p.n \notin {q.n : q \in peticiones}}

\* C22: a DELETE just issued names the id_estudiante of a row of the table; a
\* PUT just issued names, in its path and in its body, the id_estudiante of
\* the row the form was opened on; and while the form stays open no step
\* changes the identifier it holds.  (The key getRowId gives a row without an
\* identifier is a value of another kind, and goes to the grid only.)
C22_IdentificadorDeLaFila ==
    [][/\ \A p \in Nuevas :
            /\ p.metodo = "DELETE" => \E row \in Filas : p.id = row.id_estudiante
            /\ p.metodo = "PUT" =>
                  /\ estudianteSeleccionado # Null
                  /\ p.id = Val(estudianteSeleccionado).id_estudiante
                  /\ Val(p.cuerpo).id_estudiante = Val(estudianteSeleccionado).id_estudiante
       /\ modalOpen' =>
             formData'.id_estudiante = Val(estudianteSeleccionado').id_estudiante]_vars

C22_Testigo ==
    /\ ultimo.op = "handleSubmit" /\ ultimo.res = "valido" /\ nEdiciones > 0
    /\ \E p \in peticiones : p.metodo = "PUT" /\ p.id = E1.id_estudiante
    /\ \E row \in Filas : getRowId(row, 0).t = "azar"


\* the error shown under a field: none when the mapping has no entry for it
ErrorMostrado(errs, campo) == IF campo \in DOMAIN errs THEN errs[campo] ELSE ""

\* C23: in the edit form a change of one field empties the error of that
\* field and leaves the error of every other field as it was; a submit
\* leaves as error mapping exactly the rules the current form values violate,
\* with nothing kept from the mapping before
C23_ErroresPorCampo ==
    [][/\ nEdiciones' = nEdiciones + 1 =>
             \A c \in Campos :
                 ErrorMostrado(errors', c) =
                     IF c = ultimo'.res THEN "" ELSE ErrorMostrado(errors, c)
       /\ (ultimo'.op = "handleSubmit" /\ ultimo' # ultimo) =>
             /\ DOMAIN errors' = Violadas(formData)
             /\ \A c \in DOMAIN errors' : errors'[c] # ""]_vars

\* a change has just emptied the error of its own field while another field
\* still shows its error
C23_Testigo ==
    /\ ultimo.op = "handleChange" /\ modalOpen
    /\ ultimo.res \in DOMAIN errors /\ errors[ultimo.res] = ""
    /\ \E c \in DOMAIN errors : errors[c] # ""


\* C24: the notification is one slot. A step changes it only by closing it,
\* which clears the visibility flag of a visible notification and nothing
\* else, or by showing a message, which leaves that message visible whatever
\* was there; so the end of a delete leaves its own outcome visible, and a
\* failed load its error
C24_UnaNotificacion ==
    [][/\ alert' # alert =>
             IF ultimo'.op = "handleCloseAlert"
             THEN alert.open /\ alert' = [alert EXCEPT !.open = FALSE]
             ELSE alert'.open
       /\ Termina("handleDeleteEstudiante") =>
             /\ alert'.open
             /\ alert'.severity = IF ultimo'.res = "ok" THEN "success" ELSE "error"
       /\ (Termina("fetchEstudiantes") /\ ultimo'.res # "ok") =>
             alert'.open /\ alert'.severity = "error"]_vars

\* the notification of a finished delete has been closed: it is hidden and
\* still holds its message and severity
C24_Testigo ==
    /\ ultimo.op = "handleCloseAlert"
    /\ ~alert.open /\ alert.message # "" /\ alert.severity \in {"success", "error"}
    /\ nOperaciones > 0


\* an import has just been answered 2xx with a body that parses and says
\* success = false
ImportRechazado ==
    /\ Termina("handleUploadExcelFin")
    /\ Analizada(Val(ultimo'.fin))
    /\ ~Val(Val(ultimo'.fin).cuerpo).success

\* a delete or an update has just been answered 2xx with success = false
MutacionRechazada ==
    /\ Termina("handleDeleteEstudiante") \/ Termina("handleUpdateEstudiante")
    /\ ultimo'.res = "json"

\* C25: when the service answers 2xx with success = false, the message it
\* sent is on screen (for an import in the error line of the open import
\* modal, for a delete or an update in the notification), the list is as it
\* was, and the response causes no refresh, at once or through a timeout
C25_RechazoDelServicio ==
    [][/\ ImportRechazado =>
             LET msg == Val(Val(ultimo'.fin).cuerpo).msg IN
             /\ (msg # Null /\ Val(msg) # "") =>
                    /\ isImportModalOpen'
                    /\ error' = Some("Error al procesar archivo: " \o Val(msg))
             /\ estudiantes' = estudiantes
             /\ peticiones' = peticiones
             /\ timers' = timers
       /\ MutacionRechazada =>
             /\ alert'.open /\ alert'.severity = "error"
             /\ alert'.message \in {"Error: " \o MsgServidor, "Error: Error desconocido"}
             /\ estudiantes' = estudiantes
             /\ peticiones' = peticiones \ {Respondida}
             /\ timers' = timers]_vars


\* C26: the edit modal is closed by a save only at the step where the update
\* has succeeded (otherwise only by its own close controls), and the end of
\* an update that was rejected or failed finds the form still open on its
\* student
C26_CierraTrasGuardar ==
    [][/\ (modalOpen /\ ~modalOpen') =>
             \/ ultimo'.op = "handleCloseModal"
             \/ ultimo'.op = "handleUpdateEstudiante" /\ ultimo'.res = "ok"
       /\ (Termina("handleUpdateEstudiante") /\ ultimo'.res # "ok") =>
             modalOpen' /\ estudianteSeleccionado' # Null]_vars


\* C27: once nothing is outstanding the list on screen is the list the
\* service returned to the most recently issued successful refresh.  Under
\* SpecRefrescos every refresh succeeds and every change of the service's
\* list is followed by the issue of a refresh, so that list is the service's
\* list as it is now
C27_ListaDelUltimoRefresco == Reposo => estudiantes = servidor


\* C28: loading is true exactly while a list fetch, a delete, an update or
\* an export is outstanding
C28_LoadingMientrasHayPeticiones ==
    loading <=> \E p \in peticiones : p.metodo \in {"GET", "DELETE", "PUT", "EXPORT"}


\* C29: the import modal has just been reopened, so every upload in flight
\* was started before it was closed; a progress or terminal event of such an
\* upload leaves the results, the error and the progress of the reopened
\* modal as the reopening set them
C29_SoloSubidasDesdeLaReapertura ==
    [][(/\ ultimo.op = "handleOpenImportModal"
        /\ ultimo'.op \in {"onprogress", "handleUploadExcelFin"}) =>
          UNCHANGED <<processingResults, error, uploadProgress>>]_vars


\* C30: a file selection that is rejected sets one of the two rejection
\* messages and leaves the selected file as it was; the selected file changes
\* only by an accepted selection, which makes an accepted file the selected
\* one, by cancelling the selection and by reopening the modal, which both
\* empty it; and an upload sends the file that is selected when it starts
C30_RechazoConservaSeleccion ==
    [][/\ (ultimo'.op = "handleFileChange" /\ ultimo'.res = "rechazado") =>
             /\ error' # Null
             /\ Val(error') \in {"Solo se permiten archivos Excel (.xlsx, .xls)",
                                 "El archivo es demasiado grande. El tamano maximo permitido es 5MB"}
             /\ selectedFile' = selectedFile
       /\ selectedFile' # selectedFile =>
             \/ /\ ultimo'.op = "handleFileChange" /\ ultimo'.res = "aceptado"
                /\ selectedFile' # Null /\ error' = Null
             \/ /\ ultimo'.op \in {"handleCancelSelection", "handleOpenImportModal"}
                /\ selectedFile' = Null
       /\ ultimo'.op = "handleUploadExcel" =>
             /\ selectedFile # Null
             /\ \E x \in xhrs' \ xhrs : x.file = Val(selectedFile)]_vars

\* a selection has just been rejected while a file accepted earlier is
\* still the selected one
C30_Testigo ==
    /\ ultimo.op = "handleFileChange" /\ ultimo.res = "rechazado"
    /\ selectedFile # Null /\ error # Null /\ isImportModalOpen

====
